---- MODULE Spec2Model ----
(***************************************************************************)
(* A model of src/src/ecs.rs: the Entity Manager core (id counter and the  *)
(* ordered cleanup callbacks), the Entity handle that runs its cleanup on  *)
(* drop, and the component! macro's struct-of-arrays Component Manager     *)
(* (one HashMap<Id, F> per field).                                         *)
(*                                                                         *)
(* The schema modelled is a component with the two fields x and y, whose   *)
(* field type is a small natural number with Default 0.                    *)
(*                                                                         *)
(* Spec takes every call as one step and leaves the handles out;           *)
(* SpecHandles has the handles (clones), the RefCell borrow of the core,   *)
(* destroy one cleanup at a time and a counter of IdBits bits.             *)
(***************************************************************************)
EXTENDS Integers, Sequences, FiniteSets, TLC

\* ---------------------------------------------------------------- bounds
\* Number of EntityManager cores (EntityManager::default() calls).
NumCores == 2
\* Number of component managers of the schema.
NumManagers == 2
\* Cap on one core's counter: spawn is not taken beyond it.
MaxSpawn == 2
\* Cap on the entities spawned by all cores together.
MaxEntities == 3
\* Cap on the cleanups registered with all cores together.
MaxCleanups == 2
\* Field values are 0..MaxVal; 0 is the field type's Default.
MaxVal == 1
\* Number of EntityManager handles made by clone().
NumClones == 1
\* Width of Id in the specification that lets the counter overflow.
IdBits == 1

Cores == 1..NumCores
\* the EntityManager handles: handle c is the one EntityManager::default() returned
\* for core c, the others are made by clone()
Handles == 1..(NumCores + NumClones)
Managers == 1..NumManagers
\* Id = usize (the ids the capped counters can hand out)
Ids == 0..(MaxSpawn - 1)
Values == 0..MaxVal
\* the fields of the schema, in slot order
Fields == <<"x", "y">>
FieldNames == {Fields[i] : i \in DOMAIN Fields}
\* the component record: one value per field
Records == [FieldNames -> Values]
\* #[derive(Default)] on the record
DefaultRecord == [f \in FieldNames |-> 0]
\* Option<C>
NoneData == [some |-> FALSE, rec |-> DefaultRecord]
SomeData(r) == [some |-> TRUE, rec |-> r]
Data == {NoneData} \cup {SomeData(r) : r \in Records}
\* Option::unwrap_or_default
UnwrapOrDefault(d) == IF d.some THEN d.rec ELSE DefaultRecord

VARIABLES
  counter,             \* [Cores -> Nat]: EntityManagerCore.counter
  component_cleanups,  \* [Cores -> Seq(Managers)]: the manager each closure captured, in push order
  status,              \* [Cores \X Ids -> {"Unspawned", "Live", "Destroyed"}]: the Entity handle
  store,               \* [Managers -> [FieldNames -> HashMap]]: the per-field containers
  spawnLog,            \* history: [Cores -> Seq(Ids)], the ids spawn returned, in order
  destroyRuns,         \* history: [Cores \X Ids -> Nat], EntityManager::destroy calls per entity
  addedTo,             \* history: [Cores \X Ids -> SUBSET Managers], the managers the entity was passed to add of
  last,                \* the call that was made last, its arguments and what it returned
  calls,               \* history: Seq(<<manager, id>>), the remove calls the cleanups made in the call made last
  handles,             \* [Handles -> Cores \cup {0}]: the core each EntityManager handle points to (0: not made)
  running,             \* the destroy calls in progress, innermost last: Seq([c, id, next])
  via,                 \* history, per handle: the ids spawn returned through it (spawn), the managers
                       \* registered through it (register), the default() handle it is a clone of (origin)
  panicked             \* whether a call has panicked

vars == <<counter, component_cleanups, status, store, spawnLog, destroyRuns, addedTo, last,
          calls, handles, running, via, panicked>>
\* the state only the calls on the handles and the stepwise destroy change
handleVars == <<handles, running, via, panicked>>

Ents == Cores \X Ids

\* ------------------------------------------------- std::collections::HashMap
\* A HashMap<Id, F> is the sequence of its entries in the order values() and
\* values_mut() traverse them. An entry is [id, val, by]: key, value and (history)
\* the core whose entity was passed to the add that wrote it.
Range(s) == {s[i] : i \in DOMAIN s}
Keys(h) == {h[i].id : i \in DOMAIN h}
Entry(id, v, c) == [id |-> id, val |-> v, by |-> c]
\* all orders of the entries of h
Perms(h) ==
  {p \in [DOMAIN h -> Range(h)] : \A i, j \in DOMAIN h : i # j => p[i] # p[j]}

\* mutant of HashMapInsert: an existing key keeps its old value (entry().or_insert)
HashMapInsertKeep(h, id, v, c) ==
  IF id \in Keys(h) THEN {h} ELSE Perms(Append(h, Entry(id, v, c)))

\* HashMap::insert: the possible maps after insert(id, v). An existing key keeps
\* its bucket and gets the new value. A new key lands in a bucket the map's own
\* hasher (RandomState, one per map) picks, and the insert may rehash the table:
\* the traversal order afterwards is unspecified.
HashMapInsert(h, id, v, c) ==
  IF id \in Keys(h)
  THEN {[i \in DOMAIN h |-> IF h[i].id = id THEN Entry(id, v, c) ELSE h[i]]}
  ELSE Perms(Append(h, Entry(id, v, c)))

\* mutant of HashMapRemove: the key is taken for a position
HashMapRemoveAt(h, id) ==
  IF id + 1 \in DOMAIN h
  THEN [i \in 1..(Len(h) - 1) |-> IF i < id + 1 THEN h[i] ELSE h[i + 1]]
  ELSE h

\* HashMap::remove: the entry of the key is erased, the others stay in place.
HashMapRemove(h, id) == SelectSeq(h, LAMBDA e : e.id # id)

\* HashMap::default()
EmptyMap == <<>>

\* ------------------------------------------------ component! (the manager)
\* #[derive(Default)] on the manager: every field's HashMap empty
EmptyManager == [f \in FieldNames |-> EmptyMap]

\* whether id is a key of one of the manager's field containers
HasKey(mgr, id) == \E f \in FieldNames : id \in Keys(mgr[f])

\* ComponentManager::add, the inserts: self.$field_name.insert(*e, default.$field_name)
\* for every field. The set of managers the inserts can leave.
ManagerInsert(mgr, id, rec, c) ==
  {nm \in [FieldNames -> UNION {HashMapInsert(mgr[f], id, rec[f], c) : f \in FieldNames}] :
     \A f \in FieldNames : nm[f] \in HashMapInsert(mgr[f], id, rec[f], c)}

\* mutant of ManagerRemove: only the first field's container is cleared of the id
ManagerRemoveFirstField(mgr, id) ==
  [f \in FieldNames |-> IF f = Fields[1] THEN HashMapRemove(mgr[f], id) ELSE mgr[f]]

\* ComponentManager::remove: self.$field_name.remove(&e) for every field
ManagerRemove(mgr, id) == [f \in FieldNames |-> HashMapRemove(mgr[f], id)]

\* ComponentManager::iter / iter_mut: izip! of every field's values() (values_mut()),
\* each tuple turned into a view by From. View i holds, per field, the i-th entry
\* that field's map traverses; izip! stops with the shortest map.
MinLen(mgr) ==
  CHOOSE n \in 0..Cardinality(Ids) :
    /\ \A f \in FieldNames : n <= Len(mgr[f])
    /\ \E f \in FieldNames : n = Len(mgr[f])
ManagerIter(mgr) == [i \in 1..MinLen(mgr) |-> [f \in FieldNames |-> mgr[f][i]]]

\* mutant of ManagerWrite: the view holds copies, the write does not reach the map
ManagerWriteCopy(mgr, i, f, v) == mgr

\* a write through the i-th mutable view: *view.f = v
ManagerWrite(mgr, i, f, v) == [mgr EXCEPT ![f][i].val = v]

\* ------------------------------------------------------- EntityManager
\* mutant of NextCounter: the increment is missing
NextCounterStuck(n) == n

\* mutant of NextCounter: the counter is set back after the first id
NextCounterReset(n) == 0

\* EntityManager::spawn: this.counter += 1
NextCounter(n) == n + 1

\* EntityManager::register_component: this.component_cleanups.push(Box::new(|e| m.remove(e)))
PushCleanup(cl, m) == Append(cl, m)

\* EntityManager::destroy: for c in this.component_cleanups.iter_mut() { c(e) },
\* each c being |e| m.remove(e) of the manager m it captured.
RECURSIVE RunCleanups(_, _, _)
RunCleanups(st, cl, id) ==
  IF cl = <<>> THEN st
  ELSE RunCleanups([st EXCEPT ![Head(cl)] = ManagerRemove(@, id)], Tail(cl), id)
\* mutant of CleanupCalls: a cleanup is called only when its manager holds the id
CleanupCallsHolding(st, cl, id) ==
  LET has == SelectSeq(cl, LAMBDA m : HasKey(st[m], id)) IN
    [i \in DOMAIN has |-> <<has[i], id>>]
\* mutant of CleanupCalls: the cleanups are called last registered first
CleanupCallsReversed(st, cl, id) ==
  [i \in DOMAIN cl |-> <<cl[Len(cl) + 1 - i], id>>]
\* the calls the loop of destroy makes, in the order it makes them: c(e) for every
\* cleanup of the Vec from its first to its last, each c being m.remove(e)
RECURSIVE CleanupCalls(_, _, _)
CleanupCalls(st, cl, id) ==
  IF cl = <<>> THEN <<>>
  ELSE <<<<Head(cl), id>>>> \o CleanupCalls(st, Tail(cl), id)

\* mutant of Destroy: the loop stops one cleanup early
DestroySkipLast(st, cl, id) == RunCleanups(st, SubSeq(cl, 1, Len(cl) - 1), id)
\* mutant of Destroy: a cleanup empties its manager (clear for remove)
DestroyClear(st, cl, id) ==
  [m \in Managers |-> IF m \in Range(cl) THEN EmptyManager ELSE st[m]]
Destroy(st, cl, id) == RunCleanups(st, cl, id)

\* mutant of EntityDrop: drop does not call the cleanup
EntityDropNoCleanup(st, runs, cl, e) ==
  [store |-> st, runs |-> runs, cleaned |-> {}, calls |-> <<>>]

\* Drop for Entity: (self.cleanup)(self.id), the cleanup being |n| manager.destroy(n)
\* of the manager that spawned it. st: the stores, runs: destroyRuns, cl: the
\* cleanups of the entity's core, e: the entity <<core, id>>. cleaned: the managers
\* in which the call erased an entry. calls: the remove calls the cleanups made.
EntityDrop(st, runs, cl, e) ==
  LET after == Destroy(st, cl, e[2]) IN
    [store |-> after,
     runs |-> [runs EXCEPT ![e] = @ + 1],
     cleaned |-> {m \in Managers : HasKey(st[m], e[2]) /\ ~HasKey(after[m], e[2])},
     calls |-> CleanupCalls(st, cl, e[2])]

\* ---------------------------------------------------------------- state
\* The call made last: its name and arguments (0 for no core or manager, -1 for no
\* id), the views it yielded (iter) or the write it made (iter_mut), whether
\* the manager held the id when it was called (add, remove) and the managers in
\* which the entity's cleanup erased an entry (drop, add).
Call(op, c, id, m, d, vs, had, cleaned) ==
  [op |-> op, c |-> c, id |-> id, m |-> m, data |-> d, views |-> vs,
   had |-> had, cleaned |-> cleaned]

Init ==
  /\ counter = [c \in Cores |-> 0]
  /\ component_cleanups = [c \in Cores |-> <<>>]
  /\ status = [e \in Ents |-> "Unspawned"]
  /\ store = [m \in Managers |-> EmptyManager]
  /\ spawnLog = [c \in Cores |-> <<>>]
  /\ destroyRuns = [e \in Ents |-> 0]
  /\ addedTo = [e \in Ents |-> {}]
  /\ last = Call("init", 0, -1, 0, NoneData, <<>>, FALSE, {})
  /\ calls = <<>>
  /\ handles = [h \in Handles |-> IF h \in Cores THEN h ELSE 0]
  /\ running = <<>>
  /\ via = [spawn |-> [h \in Handles |-> <<>>],
            register |-> [h \in Handles |-> <<>>],
            origin |-> [h \in Handles |-> IF h \in Cores THEN h ELSE 0]]
  /\ panicked = FALSE

SpawnCount == Cardinality({e \in Ents : e[2] < Len(spawnLog[e[1]])})
CleanupCount ==
  Cardinality({p \in Cores \X (1..MaxCleanups) : p[2] <= Len(component_cleanups[p[1]])})

\* register_component(&mut self, m: &'a mut M) on an EntityManager<'a>: the cleanup
\* closure holds the exclusive borrow of m for as long as the EntityManager lives,
\* so the caller has no access to a registered manager: only its cleanup has.
Registered(m) == \E c \in Cores : m \in Range(component_cleanups[c])

\* EntityManager::spawn
Spawn(c) ==
  /\ Len(spawnLog[c]) < MaxSpawn
  /\ SpawnCount < MaxEntities
  /\ counter[c] \in Ids
  /\ status' = [status EXCEPT ![<<c, counter[c]>>] = "Live"]
  /\ counter' = [counter EXCEPT ![c] = NextCounter(@)]
  /\ spawnLog' = [spawnLog EXCEPT ![c] = Append(@, counter[c])]
  /\ last' = Call("spawn", c, counter[c], 0, NoneData, <<>>, FALSE, {})
  /\ calls' = <<>>
  /\ UNCHANGED <<component_cleanups, store, destroyRuns, addedTo>>
  /\ UNCHANGED handleVars

\* EntityManager::register_component
Register(c, m) ==
  /\ CleanupCount < MaxCleanups
  /\ ~Registered(m)
  /\ component_cleanups' = [component_cleanups EXCEPT ![c] = PushCleanup(@, m)]
  /\ last' = Call("register_component", c, -1, m, NoneData, <<>>, FALSE, {})
  /\ calls' = <<>>
  /\ UNCHANGED <<counter, status, store, spawnLog, destroyRuns, addedTo>>
  /\ UNCHANGED handleVars

\* the Entity handle goes out of scope (or is passed to drop)
Drop(c, id) ==
  /\ status[<<c, id>>] = "Live"
  /\ LET d == EntityDrop(store, destroyRuns, component_cleanups[c], <<c, id>>) IN
       /\ store' = d.store
       /\ destroyRuns' = d.runs
       /\ last' = Call("drop", c, id, 0, NoneData, <<>>, FALSE, d.cleaned)
       /\ calls' = d.calls
  /\ status' = [status EXCEPT ![<<c, id>>] = "Destroyed"]
  /\ UNCHANGED <<counter, component_cleanups, spawnLog, addedTo>>
  /\ UNCHANGED handleVars

\* ComponentManager::add(&mut self, e: Entity, default: Option<C>): the inserts,
\* then e, which add took by value, goes out of scope at add's closing brace.
Add(m, c, id, d) ==
  /\ status[<<c, id>>] = "Live"
  /\ ~Registered(m)
  /\ \E nm \in ManagerInsert(store[m], id, UnwrapOrDefault(d), c) :
       LET dr == EntityDrop([store EXCEPT ![m] = nm], destroyRuns,
                            component_cleanups[c], <<c, id>>) IN
         /\ store' = dr.store
         /\ destroyRuns' = dr.runs
         /\ last' = Call("add", c, id, m, d, <<>>, HasKey(store[m], id), dr.cleaned)
         /\ calls' = dr.calls
  /\ status' = [status EXCEPT ![<<c, id>>] = "Destroyed"]
  /\ addedTo' = [addedTo EXCEPT ![<<c, id>>] = @ \cup {m}]
  /\ UNCHANGED <<counter, component_cleanups, spawnLog>>
  /\ UNCHANGED handleVars

\* ComponentManager::remove, called by the caller
Remove(m, id) ==
  /\ ~Registered(m)
  /\ store' = [store EXCEPT ![m] = ManagerRemove(@, id)]
  /\ last' = Call("remove", 0, id, m, NoneData, <<>>, HasKey(store[m], id), {})
  /\ calls' = <<>>
  /\ UNCHANGED <<counter, component_cleanups, status, spawnLog, destroyRuns, addedTo>>
  /\ UNCHANGED handleVars

\* ComponentManager::iter, traversed to its end
Iter(m) ==
  /\ ~Registered(m)
  /\ last' = Call("iter", 0, -1, m, NoneData, ManagerIter(store[m]), FALSE, {})
  /\ calls' = <<>>
  /\ UNCHANGED <<counter, component_cleanups, status, store, spawnLog, destroyRuns, addedTo>>
  /\ UNCHANGED handleVars

\* ComponentManager::iter_mut, and a write of v to field f of the i-th view
IterMut(m, i, f, v) ==
  /\ ~Registered(m)
  /\ i \in 1..MinLen(store[m])
  /\ store' = [store EXCEPT ![m] = ManagerWrite(@, i, f, v)]
  /\ last' = Call("iter_mut", 0, store[m][f][i].id, m, NoneData,
                   <<[pos |-> i, field |-> f, val |-> v]>>, TRUE, {})
  /\ calls' = <<>>
  /\ UNCHANGED <<counter, component_cleanups, status, spawnLog, destroyRuns, addedTo>>
  /\ UNCHANGED handleVars

Next ==
  \/ \E c \in Cores : Spawn(c)
  \/ \E c \in Cores, m \in Managers : Register(c, m)
  \/ \E c \in Cores, id \in Ids : Drop(c, id)
  \/ \E m \in Managers, c \in Cores, id \in Ids, d \in Data : Add(m, c, id, d)
  \/ \E m \in Managers, id \in Ids : Remove(m, id)
  \/ \E m \in Managers : Iter(m)
  \/ \E m \in Managers, i \in 1..Cardinality(Ids), f \in FieldNames, v \in Values :
       IterMut(m, i, f, v)

Spec == Init /\ [][Next]_vars

\* ------------------------------------- the handles and the calls in progress
\* The same program with what Spec leaves out: the handles (clones) the calls go
\* through, the RefCell that guards the core, destroy taken one cleanup at a time
\* (a cleanup is a callback: remove drops the field values it erases, and their
\* Drop, like any ComponentManager a user writes, can call back into an
\* EntityManager), and an Id of IdBits bits. The calls made while a destroy is in
\* progress are the calls made from inside its cleanups.
IdLimit == 2 ^ IdBits

\* mutant of RcClone: clone makes a handle to a core of its own
RcCloneOther(c) == (c % NumCores) + 1
\* #[derive(Clone)] on EntityManager(Rc<..>): Rc::clone, a handle to the same core
RcClone(c) == c

\* the RefCell of core c is mutably borrowed: a destroy on c holds its RefMut
Borrowed(c) == \E i \in DOMAIN running : running[i].c = c
\* mutant of TryBorrowMut: the borrow is not checked
TryBorrowMutUnchecked(borrowed) == "ok"
\* RefCell::try_borrow_mut; borrow_mut() and try_borrow_mut().unwrap() panic on "err"
TryBorrowMut(borrowed) == IF borrowed THEN "err" ELSE "ok"

\* this.counter += 1 on an Id of IdBits bits: the values the build can leave in
\* counter; -1 stands for the panic of a build with overflow checks
CounterAfter(n) ==
  IF NextCounter(n) < IdLimit THEN {NextCounter(n)} ELSE {NextCounter(n) % IdLimit, -1}

\* spawn(&mut self) -> Entity<'_>: the Entity keeps the exclusive borrow of the
\* handle it was spawned through, so the handle is usable only when no entity
\* spawned through it is alive
HandleFree(h) ==
  /\ handles[h] # 0
  /\ \A i \in DOMAIN via.spawn[h] : status[<<handles[h], via.spawn[h][i]>>] # "Live"

\* a call panics: the thread unwinds (or aborts) and makes no further call
Panic(op, c, id, m) ==
  /\ panicked' = TRUE
  /\ last' = Call(op, c, id, m, NoneData, <<>>, FALSE, {})

\* EntityManager::clone
Clone(h, h2) ==
  /\ ~panicked
  /\ HandleFree(h)
  /\ handles[h2] = 0
  /\ handles' = [handles EXCEPT ![h2] = RcClone(handles[h])]
  /\ via' = [via EXCEPT !.origin[h2] = via.origin[h]]
  /\ last' = Call("clone", handles[h], -1, 0, NoneData, <<>>, FALSE, {})
  /\ UNCHANGED <<counter, component_cleanups, status, store, spawnLog, destroyRuns,
                 addedTo, calls, running, panicked>>

\* EntityManager::spawn through handle h
SpawnVia(h) ==
  LET c == handles[h]
      n == counter[c]
  IN /\ ~panicked
     /\ HandleFree(h)
     /\ Len(spawnLog[c]) < MaxSpawn
     /\ Len(spawnLog[c]) < IdLimit
     /\ SpawnCount < MaxEntities
     /\ n \in Ids
     /\ IF TryBorrowMut(Borrowed(c)) = "err"
        THEN /\ Panic("spawn", c, -1, 0)
             /\ UNCHANGED <<counter, status, spawnLog, destroyRuns, via>>
        ELSE \E after \in CounterAfter(n) :
               IF after = -1
               THEN \* the unwinding drops the Entity spawn has made, inside spawn
                    /\ Panic("spawn", c, -1, 0)
                    /\ destroyRuns' = [destroyRuns EXCEPT ![<<c, n>>] = @ + 1]
                    /\ UNCHANGED <<counter, status, spawnLog, via>>
               ELSE /\ status' = [status EXCEPT ![<<c, n>>] = "Live"]
                    /\ counter' = [counter EXCEPT ![c] = after]
                    /\ spawnLog' = [spawnLog EXCEPT ![c] = Append(@, n)]
                    /\ via' = [via EXCEPT !.spawn[h] = Append(@, n)]
                    /\ last' = Call("spawn", c, n, 0, NoneData, <<>>, FALSE, {})
                    /\ UNCHANGED <<destroyRuns, panicked>>
     /\ UNCHANGED <<component_cleanups, store, addedTo, calls, handles, running>>

\* EntityManager::register_component through handle h
RegisterVia(h, m) ==
  LET c == handles[h] IN
    /\ ~panicked
    /\ HandleFree(h)
    /\ CleanupCount < MaxCleanups
    /\ ~Registered(m)
    /\ IF TryBorrowMut(Borrowed(c)) = "err"
       THEN /\ Panic("register_component", c, -1, m)
            /\ UNCHANGED <<component_cleanups, via>>
       ELSE /\ component_cleanups' = [component_cleanups EXCEPT ![c] = PushCleanup(@, m)]
            /\ via' = [via EXCEPT !.register[h] = Append(@, m)]
            /\ last' = Call("register_component", c, -1, m, NoneData, <<>>, FALSE, {})
            /\ UNCHANGED panicked
    /\ UNCHANGED <<counter, status, store, spawnLog, destroyRuns, addedTo, calls,
                   handles, running>>

\* Drop for Entity, up to the borrow_mut of EntityManager::destroy
DropBegin(c, id) ==
  /\ ~panicked
  /\ status[<<c, id>>] = "Live"
  /\ status' = [status EXCEPT ![<<c, id>>] = "Destroyed"]
  /\ destroyRuns' = [destroyRuns EXCEPT ![<<c, id>>] = @ + 1]
  /\ IF TryBorrowMut(Borrowed(c)) = "err"
     THEN /\ Panic("drop", c, id, 0)
          /\ UNCHANGED <<running, calls>>
     ELSE /\ running' = Append(running, [c |-> c, id |-> id, next |-> 1])
          /\ calls' = IF running = <<>> THEN <<>> ELSE calls
          /\ last' = Call("drop", c, id, 0, NoneData, <<>>, FALSE, {})
          /\ UNCHANGED panicked
  /\ UNCHANGED <<counter, component_cleanups, store, spawnLog, addedTo, handles, via>>

\* EntityManager::destroy, one turn of its loop: c(e) of the next cleanup
CleanupStep ==
  /\ ~panicked
  /\ running # <<>>
  /\ LET fr == running[Len(running)]
         cl == component_cleanups[fr.c]
     IN /\ fr.next <= Len(cl)
        /\ store' = [store EXCEPT ![cl[fr.next]] = ManagerRemove(@, fr.id)]
        /\ calls' = Append(calls, <<cl[fr.next], fr.id>>)
        /\ running' = [running EXCEPT ![Len(running)].next = @ + 1]
        /\ last' = Call("cleanup", fr.c, fr.id, cl[fr.next], NoneData, <<>>,
                        HasKey(store[cl[fr.next]], fr.id), {})
  /\ UNCHANGED <<counter, component_cleanups, status, spawnLog, destroyRuns, addedTo,
                 handles, via, panicked>>

\* EntityManager::destroy returns: the loop is over, the RefMut is dropped
DestroyEnd ==
  /\ ~panicked
  /\ running # <<>>
  /\ LET fr == running[Len(running)] IN
       /\ fr.next > Len(component_cleanups[fr.c])
       /\ last' = Call("destroy_end", fr.c, fr.id, 0, NoneData, <<>>, FALSE, {})
  /\ running' = SubSeq(running, 1, Len(running) - 1)
  /\ UNCHANGED <<counter, component_cleanups, status, store, spawnLog, destroyRuns,
                 addedTo, calls, handles, via, panicked>>

NextHandles ==
  \/ \E h, h2 \in Handles : Clone(h, h2)
  \/ \E h \in Handles : SpawnVia(h)
  \/ \E h \in Handles, m \in Managers : RegisterVia(h, m)
  \/ \E c \in Cores, id \in Ids : DropBegin(c, id)
  \/ CleanupStep
  \/ DestroyEnd

SpecHandles == Init /\ [][NextHandles]_vars

\* ------------------------------------------------------------ properties
\* the entries of entity e (written by the add that was passed e) in a field map
OwnEntries(h, e) == {i \in DOMAIN h : h[i].id = e[2] /\ h[i].by = e[1]}
\* whether the manager holds an entry of entity e in one of its field containers
Holds(mgr, e) == \E f \in FieldNames : OwnEntries(mgr[f], e) # {}
\* the views of a traversal in which one of the fields is taken from id's entry
ViewsTouching(mgr, id) ==
  {i \in DOMAIN ManagerIter(mgr) : \E f \in FieldNames : ManagerIter(mgr)[i][f].id = id}
\* the views of a traversal all of whose fields are taken from id's entries
ViewsOf(mgr, id) ==
  {i \in DOMAIN ManagerIter(mgr) : \A f \in FieldNames : ManagerIter(mgr)[i][f].id = id}
\* the field values a view carries
ViewVals(view) == [f \in FieldNames |-> view[f].val]
\* how often remove(id) of manager m is among the calls
TimesCalled(cs, m, id) == Cardinality({i \in DOMAIN cs : cs[i] = <<m, id>>})

\* one step, for C1
C1_Step ==
  \A e \in Ents :
    /\ (status[e] = "Live" /\ status'[e] = "Destroyed") =>
         \A m \in Range(component_cleanups[e[1]]) :
           /\ \A f \in FieldNames : e[2] \notin Keys(store'[m][f])
           /\ ViewsTouching(store'[m], e[2]) = {}
    /\ status[e] = "Destroyed" =>
         \A m \in Managers : ~Holds(store[m], e) => ~Holds(store'[m], e)
C2_AddLeavesEntityLive ==
  last.op = "add" =>
    /\ status[<<last.c, last.id>>] = "Live"
    /\ destroyRuns[<<last.c, last.id>>] = 0
    /\ HasKey(store[last.m], last.id)

\* one step, for C3
C3_Step ==
  last'.op = "add" =>
    LET mgr == store'[last'.m]
        own == ViewsOf(mgr, last'.id)
    IN /\ Cardinality(own) = 1
       /\ ViewsTouching(mgr, last'.id) = own
       /\ \A i \in own : ViewVals(ManagerIter(mgr)[i]) = UnwrapOrDefault(last'.data)
       /\ \A j \in Ids \ {last'.id} :
            {ViewVals(ManagerIter(mgr)[i]) : i \in ViewsOf(mgr, j)}
              = {ViewVals(ManagerIter(store[last'.m])[i]) : i \in ViewsOf(store[last'.m], j)}
\* C3: after add(e, data), a traversal yields exactly one view for e's id, it
\* carries the record's field values (the defaults when data is None), and the
\* views of every other id are as before the call.
C3_AddYieldsOneView == [][C3_Step]_vars

\* C4: the n-th spawn of a core returns id n-1, whatever calls are made between
\* the spawns.
C4_SpawnIds ==
  \A c \in Cores : \A n \in 1..Len(spawnLog[c]) : spawnLog[c][n] = n - 1

\* C4 witness: a core spawned its second entity after its first was destroyed and
\* after a manager was registered with it.
C4_Witness ==
  /\ last.op = "spawn"
  /\ last.id = 1
  /\ status[<<last.c, 0>>] = "Destroyed"
  /\ component_cleanups[last.c] # <<>>

\* every state and every step, for C5
C5_Inv ==
  \A e \in Ents : destroyRuns[e] = IF status[e] = "Destroyed" THEN 1 ELSE 0
C5_Step ==
  /\ \A e \in Ents :
       /\ status[e] = "Destroyed" => status'[e] = "Destroyed"
       /\ status[e] = "Live" => status'[e] \in {"Live", "Destroyed"}
       /\ status[e] = "Unspawned" => status'[e] \in {"Unspawned", "Live"}
       /\ destroyRuns'[e] = destroyRuns[e] + (IF status[e] = "Live" /\ status'[e] = "Destroyed" THEN 1 ELSE 0)
  /\ last'.op \in {"add", "drop"} => status[<<last'.c, last'.id>>] = "Live"
\* C5: an entity goes Unspawned -> Live -> Destroyed; destroy has run once for a
\* Destroyed entity and never for another; Destroyed is final; add and drop take a
\* Live entity.
C5_DestroyedOnce == []C5_Inv /\ [][C5_Step]_vars

\* C5 witness: an entity's handle went out of scope and its destroy has run once.
C5_Witness ==
  /\ last.op = "drop"
  /\ status[<<last.c, last.id>>] = "Destroyed"
  /\ destroyRuns[<<last.c, last.id>>] = 1

\* C6: in a traversal every view takes all its fields from the entries of one id.
C6_ViewsOfOneEntity ==
  \A m \in Managers : \A i \in DOMAIN ManagerIter(store[m]) :
    \A f, g \in FieldNames : ManagerIter(store[m])[i][f].id = ManagerIter(store[m])[i][g].id

\* C7: between calls, all field containers of a manager have the same keys.
C7_SameKeys ==
  \A m \in Managers : \A f, g \in FieldNames : Keys(store[m][f]) = Keys(store[m][g])

\* C7 witness: remove erased an id's entries from a manager that holds another id.
C7_Witness ==
  /\ last.op = "remove"
  /\ last.had
  /\ store[last.m][Fields[1]] # <<>>

\* C8: for two entities e1, e2 of one EntityManager that had the component added
\* to manager m, once e1 is destroyed (e2's component being in m as added and no
\* other entity having been added to m) a traversal of m yields exactly one view,
\* e2's.
C8_OtherEntityKept ==
  \A m \in Managers, c \in Cores, i, j \in Ids :
    LET e1 == <<c, i>>
        e2 == <<c, j>>
    IN (/\ i # j
        /\ m \in addedTo[e1]
        /\ m \in addedTo[e2]
        /\ \A e3 \in Ents \ {e1, e2} : m \notin addedTo[e3]
        /\ status[e1] = "Destroyed"
        /\ \A f \in FieldNames : OwnEntries(store[m][f], e2) # {})
       => /\ Len(ManagerIter(store[m])) = 1
          /\ ViewsOf(store[m], j) = {1}
          /\ ~Holds(store[m], e1)

\* the values a field map holds for an id, and one step, for C9
Lookup(h, id) == {h[i].val : i \in {k \in DOMAIN h : h[k].id = id}}
C9_Step ==
  (last'.op = "add" /\ HasKey(store[last'.m], last'.id)) =>
    \A f \in FieldNames :
      /\ Cardinality({k \in DOMAIN store'[last'.m][f] : store'[last'.m][f][k].id = last'.id}) = 1
      /\ Lookup(store'[last'.m][f], last'.id) = {UnwrapOrDefault(last'.data)[f]}
      /\ \A j \in Ids \ {last'.id} :
           Lookup(store'[last'.m][f], j) = Lookup(store[last'.m][f], j)
\* C9: an add for an id the manager already holds replaces every field's value by
\* the new record's, leaves the id once in every field's traversal and leaves the
\* entries of the other ids as they were.
C9_ReAddReplaces == [][C9_Step]_vars

\* C9 witness: an add for an id the manager held, with another id in the manager.
C9_Witness ==
  /\ last.op = "add"
  /\ last.had
  /\ Keys(store[last.m][Fields[1]]) \ {last.id} # {}

\* C10: for every manager state and every id, a second remove changes nothing and
\* remove of an absent id changes nothing.
C10_RemoveIdempotent ==
  \A m \in Managers, id \in Ids :
    /\ ManagerRemove(ManagerRemove(store[m], id), id) = ManagerRemove(store[m], id)
    /\ ~HasKey(store[m], id) => ManagerRemove(store[m], id) = store[m]
    /\ ~HasKey(ManagerRemove(store[m], id), id)

\* C10 witness: remove was called for an id the manager did not hold, on a manager
\* that holds another id.
C10_Witness ==
  /\ last.op = "remove"
  /\ ~last.had
  /\ store[last.m][Fields[1]] # <<>>

\* one step, for C11
C11_Step ==
  (last'.op = "drop" /\ \A m \in Managers : ~HasKey(store[m], last'.id)) =>
    /\ store' = store
    /\ counter' = counter
    /\ component_cleanups' = component_cleanups
SameManager(h1, h2) == via.origin[h1] # 0 /\ via.origin[h1] = via.origin[h2]
\* C12: the handles of one EntityManager point to one core; the ids spawn has
\* returned through them are all different; and when the destroy of an entity
\* spawned through one of them returns, remove of that id has been called once on
\* every manager registered through any of them, and none of them holds the id.
C12_ClonesShareCore ==
  \A h1, h2 \in Handles :
    SameManager(h1, h2) =>
      /\ handles[h1] = handles[h2]
      /\ \A i \in DOMAIN via.spawn[h1], j \in DOMAIN via.spawn[h2] :
           (h1 # h2 \/ i # j) => via.spawn[h1][i] # via.spawn[h2][j]
      /\ (/\ last.op = "destroy_end"
          /\ last.c = handles[via.origin[h2]]
          /\ last.id \in Range(via.spawn[h2]))
         => \A m \in Range(via.register[h1]) :
              /\ TimesCalled(calls, m, last.id) = 1
              /\ ~HasKey(store[m], last.id)

\* C12 witness: the destroy of an entity spawned through a clone has returned, with
\* a manager registered and another entity spawned through the handle it is a
\* clone of.
C12_Witness ==
  /\ last.op = "destroy_end"
  /\ \E h2 \in Handles \ Cores :
       /\ via.origin[h2] # 0
       /\ handles[h2] = last.c
       /\ last.id \in Range(via.spawn[h2])
       /\ via.register[via.origin[h2]] # <<>>
       /\ via.spawn[via.origin[h2]] # <<>>

\* the ids of a field map in the order it is traversed, and one step, for C13
KeyOrder(h) == [k \in DOMAIN h |-> h[k].id]
C13_Step ==
  last'.op = "iter_mut" =>
    LET w == last'.views[1]
        m == last'.m
        e == last'.id
    IN /\ \A g \in FieldNames, j \in Ids :
            Lookup(store'[m][g], j) =
              IF g = w.field /\ j = e THEN {w.val} ELSE Lookup(store[m][g], j)
       /\ \A g \in FieldNames : KeyOrder(store'[m][g]) = KeyOrder(store[m][g])
       /\ \A m2 \in Managers \ {m} : store'[m2] = store[m2]
       /\ w.pos \in ViewsOf(store[m], e) =>
            /\ w.pos \in ViewsOf(store'[m], e)
            /\ ViewVals(ManagerIter(store'[m])[w.pos]) =
                 [ViewVals(ManagerIter(store[m])[w.pos]) EXCEPT ![w.field] = w.val]
\* C13: a write of v to field f through a mutable view sets the stored value of f
\* for the id whose entry the view refers to and changes no other field, no other
\* id, no key and no other manager; when the view is the view of entity e (all its
\* fields are e's), a following traversal yields at its place the view of e with v
\* for f and the other fields as before.
C13_WriteInPlace == [][C13_Step]_vars

\* C13 witness: a write of a value through the view of one entity, in a manager
\* that holds another id whose value of that field differs.
C13_Witness ==
  /\ last.op = "iter_mut"
  /\ last.views[1].pos \in ViewsOf(store[last.m], last.id)
  /\ \E j \in Ids \ {last.id} :
       /\ HasKey(store[last.m], j)
       /\ last.views[1].val \notin Lookup(store[last.m][last.views[1].field], j)

\* one step, for C14
C14_Step ==
  /\ last'.op \in {"drop", "add"} =>
       /\ \A m \in Managers :
            TimesCalled(calls', m, last'.id) =
              IF m \in Range(component_cleanups[last'.c]) THEN 1 ELSE 0
       /\ \A i \in DOMAIN calls' : calls'[i][2] = last'.id
       /\ \A m \in Range(component_cleanups[last'.c]) : ~HasKey(store'[m], last'.id)
  /\ last'.op \notin {"drop", "add"} => calls' = <<>>
  /\ last'.op = "register_component" => store' = store
\* C14: a destroy calls remove(id) once for every manager registered with the
\* entity's EntityManager at that time, whether or not it holds the id, and for no
\* other manager; a registration made later calls no remove.
C14_CleanupsOfRegistered == [][C14_Step]_vars

\* C14 witness: an entity was dropped with two managers registered, one of which
\* held its id and one of which did not.
C14_Witness ==
  /\ last.op = "drop"
  /\ Len(calls) = 2
  /\ Cardinality(last.cleaned) = 1

\* one step, for C15
C15_Step ==
  /\ \A c \in Cores :
       LET old == component_cleanups[c]
           new == component_cleanups'[c]
       IN IF last'.op = "register_component" /\ last'.c = c
          THEN /\ Len(new) = Len(old) + 1
               /\ SubSeq(new, 1, Len(old)) = old
               /\ new[Len(new)] = last'.m
          ELSE new = old
  /\ last'.op \in {"drop", "add"} =>
       [i \in DOMAIN calls' |-> calls'[i][1]] = component_cleanups[last'.c]
\* C15: register_component puts the new cleanup after those registered before and
\* no call moves or drops a registered cleanup; a destroy calls the managers'
\* remove in that order, the one registered first first.
C15_RegistrationOrder == [][C15_Step]_vars

\* C15 witness: an entity was dropped with manager 2 registered before manager 1,
\* and remove of manager 2 was called before remove of manager 1.
C15_Witness ==
  /\ last.op = "drop"
  /\ calls = <<<<2, last.id>>, <<1, last.id>>>>
  /\ component_cleanups[last.c] = <<2, 1>>

\* every state and every step, for C16
C16_Inv ==
  \A i, j \in DOMAIN running : i # j => running[i].c # running[j].c
C16_Step ==
  (last'.op \in {"spawn", "register_component", "drop"} /\ Borrowed(last'.c)) =>
    /\ panicked'
    /\ counter' = counter
    /\ component_cleanups' = component_cleanups
    /\ spawnLog' = spawnLog
    /\ running' = running
    /\ store' = store
    /\ calls' = calls
\* C16: at most one destroy is in progress on a core; a spawn, a
\* register_component or a drop of an entity on a core whose destroy is in
\* progress, through whatever handle, ends in that very step with a panic and
\* leaves the counters, the registered cleanups, the storage and the destroys in
\* progress as they were.
C16_ReentryPanics == []C16_Inv /\ [][C16_Step]_vars

\* C16 witness: inside a cleanup of the destroy of one entity, another entity of
\* the same EntityManager was dropped, and the drop panicked.
C16_Witness ==
  /\ panicked
  /\ last.op = "drop"
  /\ \E i \in DOMAIN running :
       /\ running[i].c = last.c
       /\ running[i].id # last.id
       /\ running[i].next > 1

\* C17: when a manager has just been registered with an EntityManager, it holds no
\* entry of an entity of that EntityManager that is already destroyed.
C17_NoDataOfEarlierDestroyed ==
  last.op = "register_component" =>
    \A id \in Ids :
      status[<<last.c, id>>] = "Destroyed" => ~Holds(store[last.m], <<last.c, id>>)

\* one step, for C18
C18_Step ==
  (last'.op = "spawn" /\ ~Borrowed(last'.c)) =>
    /\ ~panicked'
    /\ last'.id = counter[last'.c]
    /\ counter'[last'.c] = counter[last'.c] + 1
    /\ counter'[last'.c] \notin Range(spawnLog'[last'.c])
\* C18: a spawn on a core with no destroy in progress does not panic, returns the
\* id the counter held and leaves the counter one higher, on an id that has not
\* been handed out, also when the counter held the largest value of Id.
C18_SpawnNeverFails == [][C18_Step]_vars

\* whether every entity that was passed to add was spawned by core c
OnlyAdded(c) == \A e \in Ents : addedTo[e] # {} => e[1] = c
\* C19: when every entity passed to add was spawned by one EntityManager, every
\* key of every field container of every manager is an id that EntityManager has
\* handed out: it is below its counter and in the log of its spawns.
C19_KeysBelowCounter ==
  \A c \in Cores :
    OnlyAdded(c) =>
      \A m \in Managers, f \in FieldNames :
        \A id \in Keys(store[m][f]) :
          /\ id < counter[c]
          /\ id \in Range(spawnLog[c])

\* C19 witness: the second entity of an EntityManager has been added to a manager,
\* the other EntityManager has spawned too and none of its entities was added.
C19_Witness ==
  /\ last.op = "add"
  /\ last.id = 1
  /\ OnlyAdded(last.c)
  /\ HasKey(store[last.m], 1)
  /\ \E c \in Cores \ {last.c} : counter[c] > 0

====
